---- MODULE Spec2Model ----
(***************************************************************************)
(* Model of the register-user lambda (http_handler.rs): one invocation of  *)
(* function_handler, from the request body to the value it returns, with   *)
(* the identity provider (Cognito) as an environment whose two operations  *)
(* may each succeed or fail.                                               *)
(*                                                                         *)
(* Rust Strings that come from the request are sequences of characters;    *)
(* a character is a one-element name ("a", "@", "U+00E9") and utf8_len     *)
(* gives the number of bytes of its UTF-8 encoding, so that String::len    *)
(* (bytes) and the number of characters are different operators.           *)
(***************************************************************************)
EXTENDS Integers, Sequences, FiniteSets, TLC

\* ---------------------------------------------------------------- bounds
MaxPwLen == 8
MaxEmailLen == 1

\* ------------------------------------------------------ program constants
MinPasswordLen == 8

\* ------------------------------------------------------------- alphabets
PwChars == {"a", "U+00E9"}
EmailChars == {"a", "@"}
TenantIds == {<< >>, <<"t">>}
Roles == {<< >>, <<"r">>}
UserIds == {"uuid-1", "uuid-2"}
PoolIds == {"pool-1"}
ProviderErrors == {"UsernameExistsException", "InvalidPasswordException"}

SeqsUpTo(S, n) == UNION {[1..k -> S] : k \in 0..n}

\* ------------------------------------------------------ string primitives
utf8_len(c) == IF c = "U+00E9" THEN 2 ELSE 1

RECURSIVE str_len(_)
str_len(s) == IF s = << >> THEN 0 ELSE utf8_len(Head(s)) + str_len(Tail(s))

is_empty(s) == str_len(s) = 0

contains(s, c) == \E i \in 1..Len(s) : s[i] = c

Str(s) == [t |-> "str", s |-> s]
JMissing == [t |-> "missing"]
JNull == [t |-> "null"]
JNum == [t |-> "num"]

None == [some |-> FALSE]
Some(v) == [some |-> TRUE, v |-> v]

STR_false == <<"f", "a", "l", "s", "e">>
STR_User == <<"U", "s", "e", "r">>

\* ------------------------------------------------------------ the inputs
Bodies ==
    {[kind |-> "Empty"], [kind |-> "Text"]} \cup
    { [kind |-> "Json", email |-> e, password |-> p, tenant_id |-> t, user_role |-> r] :
        e \in {JMissing, JNull} \cup {Str(s) : s \in SeqsUpTo(EmailChars, MaxEmailLen)},
        p \in {JMissing, JNull} \cup {Str(s) : s \in SeqsUpTo(PwChars, MaxPwLen)},
        t \in {JMissing, JNull} \cup {Str(s) : s \in TenantIds},
        r \in {JMissing, JNull, JNum} \cup {Str(s) : s \in Roles} }

Envs == {None} \cup {Some(p) : p \in PoolIds}

\* ------------------------------------------------------- deserialization
\* serde derive: a String field must be present and a JSON string; an
\* Option<String> field is None when absent or null, Some for a string.
from_slice(b) ==
    IF b.kind # "Json" THEN [ok |-> FALSE]
    ELSE IF b.email.t # "str" \/ b.password.t # "str" \/ b.tenant_id.t # "str"
         THEN [ok |-> FALSE]
    ELSE IF b.user_role.t = "num" THEN [ok |-> FALSE]
    ELSE [ok |-> TRUE,
          req |-> [email |-> b.email.s,
                   password |-> b.password.s,
                   tenant_id |-> b.tenant_id.s,
                   user_role |-> IF b.user_role.t = "str" THEN Some(b.user_role.s) ELSE None]]

\* ------------------------------------------------------------- responses
create_success_response(data) ==
    [kind |-> "Ok", status |-> 201, content_type |-> "application/json", body |-> data]

create_error_response(status, error_code, message) ==
    [kind |-> "Ok", status |-> status, content_type |-> "application/json",
     body |-> [error |-> error_code, message |-> message]]

RegisterUserResponse(uid) ==
    [user_id |-> uid,
     message |-> "User registered successfully. Please check your email for verification."]

HandlerErr(msg) == [kind |-> "Err", message |-> msg]

Pending == [kind |-> "Pending"]

\* ---------------------------------------------------------- validation
required_missing(req) ==
    is_empty(req.email) \/ is_empty(req.password) \/ is_empty(req.tenant_id)

email_format_invalid(req) == ~contains(req.email, "@")

password_too_short(req) == str_len(req.password) < MinPasswordLen

unwrap_or_User_admin(opt) == IF opt.some THEN opt.v ELSE <<"A", "d", "m", "i", "n">>

unwrap_or_User(opt) == IF opt.some THEN opt.v ELSE STR_User

\* ------------------------------------------------------ provider requests
AdminCreateUserRequest(pool, uid, email, password, tenant_id, user_role) ==
    [op |-> "AdminCreateUser",
     user_pool_id |-> pool,
     username |-> uid,
     user_attributes |-> << [name |-> "email", value |-> email],
                            [name |-> "email_verified", value |-> STR_false],
                            [name |-> "custom:tenant_id", value |-> tenant_id],
                            [name |-> "custom:user_role", value |-> user_role] >>,
     desired_delivery_mediums |-> "Email",
     temporary_password |-> password,
     message_action |-> "Suppress"]

AdminSetUserPasswordRequest(pool, uid, password) ==
    [op |-> "AdminSetUserPassword",
     user_pool_id |-> pool,
     username |-> uid,
     password |-> password,
     permanent |-> TRUE]

\* ------------------------------------------------------------------ state
VARIABLES
    body,          \* event.body()
    env,           \* USER_POOL_ID in the process environment
    pc,            \* position of function_handler
    request,       \* the deserialized RegisterUserRequest
    client,        \* TRUE once the Cognito client is built
    envRead,       \* TRUE once std::env::var("USER_POOL_ID") was evaluated
    user_pool_id,  \* local user_pool_id
    user_id,       \* local user_id
    calls,         \* provider requests issued, in order
    replies,       \* the provider's answers, in order
    users,         \* user records held by the provider
    reg,           \* result of register_user_in_cognito
    result         \* value returned by function_handler

vars == <<body, env, pc, request, client, envRead, user_pool_id, user_id,
          calls, replies, users, reg, result>>

NoRequest == [none |-> TRUE]

Init ==
    /\ body \in Bodies
    /\ env \in Envs
    /\ pc = "parse"
    /\ request = NoRequest
    /\ client = FALSE
    /\ envRead = FALSE
    /\ user_pool_id = "none"
    /\ user_id = "none"
    /\ calls = << >>
    /\ replies = << >>
    /\ users = {}
    /\ reg = Pending
    /\ result = Pending

Return(r) == /\ result' = r
             /\ pc' = "done"

\* ------------------------------------------------------- function_handler
\* lines 31-39, with the environment lookup moved in front of the parse
ParseBody_env_first ==
    /\ pc = "parse"
    /\ envRead' = TRUE
    /\ IF ~env.some
       THEN /\ Return(HandlerErr("USER_POOL_ID environment variable not set"))
            /\ UNCHANGED request
       ELSE LET r == from_slice(body) IN
            IF r.ok
            THEN /\ request' = r.req
                 /\ pc' = "check_required"
                 /\ UNCHANGED result
            ELSE /\ Return(create_error_response(400, "INVALID_REQUEST", "Invalid request body"))
                 /\ UNCHANGED request
    /\ UNCHANGED <<body, env, client, user_pool_id, user_id, calls, replies, users, reg>>

\* lines 31-39: deserialize the body
ParseBody ==
    /\ pc = "parse"
    /\ LET r == from_slice(body) IN
       IF r.ok
       THEN /\ request' = r.req
            /\ pc' = "check_required"
            /\ UNCHANGED result
       ELSE /\ Return(create_error_response(400, "INVALID_REQUEST", "Invalid request body"))
            /\ UNCHANGED request
    /\ UNCHANGED <<body, env, client, envRead, user_pool_id, user_id, calls, replies, users, reg>>

\* lines 41-49 with the email format check placed before the required-fields check
ValidateRequired_email_first ==
    /\ pc = "check_required"
    /\ IF email_format_invalid(request)
       THEN Return(create_error_response(400, "VALIDATION_ERROR", "Invalid email format"))
       ELSE IF required_missing(request)
       THEN Return(create_error_response(400, "VALIDATION_ERROR",
                       "Email, password, and tenant_id are required"))
       ELSE /\ pc' = "check_email"
            /\ UNCHANGED result
    /\ UNCHANGED <<body, env, request, client, envRead, user_pool_id, user_id,
                   calls, replies, users, reg>>

\* lines 41-44
ValidateRequired ==
    /\ pc = "check_required"
    /\ IF required_missing(request)
       THEN Return(create_error_response(400, "VALIDATION_ERROR",
                       "Email, password, and tenant_id are required"))
       ELSE /\ pc' = "check_email"
            /\ UNCHANGED result
    /\ UNCHANGED <<body, env, request, client, envRead, user_pool_id, user_id,
                   calls, replies, users, reg>>

\* lines 46-49
ValidateEmailFormat ==
    /\ pc = "check_email"
    /\ IF email_format_invalid(request)
       THEN Return(create_error_response(400, "VALIDATION_ERROR", "Invalid email format"))
       ELSE /\ pc' = "check_password"
            /\ UNCHANGED result
    /\ UNCHANGED <<body, env, request, client, envRead, user_pool_id, user_id,
                   calls, replies, users, reg>>

\* lines 51-54
ValidatePasswordStrength ==
    /\ pc = "check_password"
    /\ IF password_too_short(request)
       THEN Return(create_error_response(400, "VALIDATION_ERROR",
                       "Password must be at least 8 characters long"))
       ELSE /\ pc' = "load_defaults"
            /\ UNCHANGED result
    /\ UNCHANGED <<body, env, request, client, envRead, user_pool_id, user_id,
                   calls, replies, users, reg>>

\* lines 56-58: build the Cognito client (no provider call yet)
LoadDefaults ==
    /\ pc = "load_defaults"
    /\ client' = TRUE
    /\ pc' = "get_pool_id"
    /\ UNCHANGED <<body, env, request, envRead, user_pool_id, user_id,
                   calls, replies, users, reg, result>>

\* lines 60-62 with the missing variable replaced by an empty pool id
GetUserPoolId_or_default ==
    /\ pc = "get_pool_id"
    /\ envRead' = TRUE
    /\ user_pool_id' = IF env.some THEN env.v ELSE ""
    /\ pc' = "new_user_id"
    /\ UNCHANGED <<body, env, request, client, user_id, calls, replies, users, reg, result>>

\* lines 60-62: std::env::var("USER_POOL_ID").map_err(..)?
GetUserPoolId ==
    /\ pc = "get_pool_id"
    /\ envRead' = TRUE
    /\ IF env.some
       THEN /\ user_pool_id' = env.v
            /\ pc' = "new_user_id"
            /\ UNCHANGED result
       ELSE /\ Return(HandlerErr("USER_POOL_ID environment variable not set"))
            /\ UNCHANGED user_pool_id
    /\ UNCHANGED <<body, env, request, client, user_id, calls, replies, users, reg>>

\* lines 64-65: Uuid::new_v4()
GenerateUserId ==
    /\ pc = "new_user_id"
    /\ \E u \in UserIds : user_id' = u
    /\ pc' = "create_user"
    /\ UNCHANGED <<body, env, request, client, envRead, user_pool_id,
                   calls, replies, users, reg, result>>

\* ------------------------------------------------ register_user_in_cognito
CreateUserCall ==
    AdminCreateUserRequest(user_pool_id, user_id, request.email, request.password,
                           request.tenant_id, unwrap_or_User(request.user_role))

ProviderReplies == {[ok |-> TRUE]} \cup {[ok |-> FALSE, err |-> e] : e \in ProviderErrors}

\* lines 102-134 with the error of send() dropped instead of propagated
AdminCreateUser_ignore_error ==
    /\ pc = "create_user"
    /\ calls' = Append(calls, CreateUserCall)
    /\ \E r \in ProviderReplies :
         /\ replies' = Append(replies, r)
         /\ users' = IF r.ok
                     THEN users \cup {[user_pool_id |-> user_pool_id, username |-> user_id,
                                       status |-> "FORCE_CHANGE_PASSWORD"]}
                     ELSE users
         /\ pc' = "set_password"
         /\ UNCHANGED reg
    /\ UNCHANGED <<body, env, request, client, envRead, user_pool_id, user_id, result>>

\* lines 102-134 with a second attempt after a failure
AdminCreateUser_retry ==
    /\ pc = "create_user"
    /\ calls' = Append(calls, CreateUserCall)
    /\ \E r \in ProviderReplies :
         /\ replies' = Append(replies, r)
         /\ users' = IF r.ok
                     THEN users \cup {[user_pool_id |-> user_pool_id, username |-> user_id,
                                       status |-> "FORCE_CHANGE_PASSWORD"]}
                     ELSE users
         /\ IF r.ok
            THEN /\ pc' = "set_password"
                 /\ UNCHANGED reg
            ELSE IF Len(calls) = 0
            THEN /\ pc' = "create_user"
                 /\ UNCHANGED reg
            ELSE /\ reg' = [ok |-> FALSE, err |-> r.err]
                 /\ pc' = "respond"
    /\ UNCHANGED <<body, env, request, client, envRead, user_pool_id, user_id, result>>

\* lines 102-134: admin_create_user()...send().await?
AdminCreateUser ==
    /\ pc = "create_user"
    /\ calls' = Append(calls, CreateUserCall)
    /\ \E r \in ProviderReplies :
         /\ replies' = Append(replies, r)
         /\ users' = IF r.ok
                     THEN users \cup {[user_pool_id |-> user_pool_id, username |-> user_id,
                                       status |-> "FORCE_CHANGE_PASSWORD"]}
                     ELSE users
         /\ IF r.ok
            THEN /\ pc' = "set_password"
                 /\ UNCHANGED reg
            ELSE /\ reg' = [ok |-> FALSE, err |-> r.err]
                 /\ pc' = "respond"
    /\ UNCHANGED <<body, env, request, client, envRead, user_pool_id, user_id, result>>

SetPasswordCall == AdminSetUserPasswordRequest(user_pool_id, user_id, request.password)

Confirm(us, pool, uid) ==
    {IF u.user_pool_id = pool /\ u.username = uid
     THEN [u EXCEPT !.status = "CONFIRMED"] ELSE u : u \in us}

\* lines 138-150 with the error of send() dropped instead of propagated
AdminSetUserPassword_ignore_error ==
    /\ pc = "set_password"
    /\ calls' = Append(calls, SetPasswordCall)
    /\ \E r \in ProviderReplies :
         /\ replies' = Append(replies, r)
         /\ users' = IF r.ok THEN Confirm(users, user_pool_id, user_id) ELSE users
         /\ reg' = [ok |-> TRUE]
    /\ pc' = "respond"
    /\ UNCHANGED <<body, env, request, client, envRead, user_pool_id, user_id, result>>

\* lines 138-150 followed by a compensating delete of the created user
AdminSetUserPassword_rollback ==
    /\ pc = "set_password"
    /\ \E r \in ProviderReplies :
         /\ replies' = Append(replies, r)
         /\ IF r.ok
            THEN /\ calls' = Append(calls, SetPasswordCall)
                 /\ users' = Confirm(users, user_pool_id, user_id)
                 /\ reg' = [ok |-> TRUE]
            ELSE /\ calls' = calls \o << SetPasswordCall,
                                        [op |-> "AdminDeleteUser", user_pool_id |-> user_pool_id,
                                         username |-> user_id] >>
                 /\ users' = {u \in users : ~(u.user_pool_id = user_pool_id /\ u.username = user_id)}
                 /\ reg' = [ok |-> FALSE, err |-> r.err]
    /\ pc' = "respond"
    /\ UNCHANGED <<body, env, request, client, envRead, user_pool_id, user_id, result>>

\* lines 138-150: admin_set_user_password()...send().await?; Ok(())
AdminSetUserPassword ==
    /\ pc = "set_password"
    /\ calls' = Append(calls, SetPasswordCall)
    /\ \E r \in ProviderReplies :
         /\ replies' = Append(replies, r)
         /\ users' = IF r.ok THEN Confirm(users, user_pool_id, user_id) ELSE users
         /\ reg' = IF r.ok THEN [ok |-> TRUE] ELSE [ok |-> FALSE, err |-> r.err]
    /\ pc' = "respond"
    /\ UNCHANGED <<body, env, request, client, envRead, user_pool_id, user_id, result>>

\* lines 76-88 with the Err arm propagating the error to the runtime
match_register_result_propagate(r, uid) ==
    IF r.ok
    THEN create_success_response(RegisterUserResponse(uid))
    ELSE HandlerErr(r.err)

\* lines 76-88: the match on the result of register_user_in_cognito
match_register_result(r, uid) ==
    IF r.ok
    THEN create_success_response(RegisterUserResponse(uid))
    ELSE create_error_response(500, "REGISTRATION_FAILED", r.err)

Respond ==
    /\ pc = "respond"
    /\ Return(match_register_result(reg, user_id))
    /\ UNCHANGED <<body, env, request, client, envRead, user_pool_id, user_id,
                   calls, replies, users, reg>>

Next ==
    \/ ParseBody
    \/ ValidateRequired
    \/ ValidateEmailFormat
    \/ ValidatePasswordStrength
    \/ LoadDefaults
    \/ GetUserPoolId
    \/ GenerateUserId
    \/ AdminCreateUser
    \/ AdminSetUserPassword
    \/ Respond

Spec == Init /\ [][Next]_vars

TypeOK == pc \in {"parse", "check_required", "check_email", "check_password", "load_defaults",
                  "get_pool_id", "new_user_id", "create_user", "set_password", "respond", "done"}

\* ================================================================ claims
\* Predicates on the raw request body, written from the four checks as the
\* claims state them (not from the handler's operators).
IsStr(v) == v.t = "str"

\* number of characters of a string (not of bytes)
chars_count(s) == Len(s)

FailsA(b) ==
    \/ b.kind # "Json"
    \/ /\ b.kind = "Json"
       /\ \/ ~IsStr(b.email)
          \/ ~IsStr(b.password)
          \/ ~IsStr(b.tenant_id)
          \/ b.user_role.t = "num"

FailsB(b) == b.email.s = << >> \/ b.password.s = << >> \/ b.tenant_id.s = << >>

FailsC(b) == \A i \in 1..Len(b.email.s) : b.email.s[i] # "@"

ByteLen(s) == Len(s) + Cardinality({i \in 1..Len(s) : s[i] = "U+00E9"})

FailsD(b) == ByteLen(b.password.s) < 8

PassesABC(b) == ~FailsA(b) /\ ~FailsB(b) /\ ~FailsC(b)

Valid(b) == PassesABC(b) /\ ~FailsD(b)

ErrorBody(code, msg) == [error |-> code, message |-> msg]

Http(status, b) ==
    [kind |-> "Ok", status |-> status, content_type |-> "application/json", body |-> b]

\* the response of the first failing check, as a function of the body alone
InvalidOutcome(b) ==
    IF FailsA(b) THEN Http(400, ErrorBody("INVALID_REQUEST", "Invalid request body"))
    ELSE IF FailsB(b)
    THEN Http(400, ErrorBody("VALIDATION_ERROR", "Email, password, and tenant_id are required"))
    ELSE IF FailsC(b)
    THEN Http(400, ErrorBody("VALIDATION_ERROR", "Invalid email format"))
    ELSE Http(400, ErrorBody("VALIDATION_ERROR", "Password must be at least 8 characters long"))

Is201 == result.kind = "Ok" /\ result.status = 201

IsErrorResponse ==
    /\ result.kind = "Ok"
    /\ result.status \in {400, 500}
    /\ DOMAIN result.body = {"error", "message"}

OpCount(op) == Cardinality({i \in 1..Len(calls) : calls[i].op = op})

\* C1: the checks run in the order (a) deserialize, (b) non-empty fields,
\* (c) '@' in email, (d) password length (String::len) >= 8, and a finished
\* invocation of a request failing some check carries the response of the
\* first failing check only.
C1_FirstFailureWins ==
    (pc = "done" /\ ~Valid(body)) => result = InvalidOutcome(body)

\* a request failing (b), (c) and (d) at once got the response of (b)
C1_Witness ==
    /\ pc = "done"
    /\ ~FailsA(body) /\ FailsB(body) /\ FailsC(body) /\ FailsD(body)
    /\ result.body.message = "Email, password, and tenant_id are required"

\* C2: a request passing (a)-(c) whose password has fewer than 8 CHARACTERS
\* ends with 400 VALIDATION_ERROR and no provider call.
C2_ShortPasswordRejected ==
    (pc = "done" /\ PassesABC(body) /\ chars_count(body.password.s) < 8) =>
        /\ result = Http(400, ErrorBody("VALIDATION_ERROR",
                                        "Password must be at least 8 characters long"))
        /\ calls = << >>

\* C3: 201 exactly when validation passed, the pool id was set, create-user
\* then set-password were issued and both succeeded; the returned user_id
\* is the generated one, used as username in both calls; any other response
\* has status 400 or 500.
C3_CreatedIffAllSucceeded ==
    pc = "done" =>
        /\ Is201 <=> /\ Valid(body)
                     /\ env.some
                     /\ Len(calls) = 2 /\ Len(replies) = 2
                     /\ calls[1].op = "AdminCreateUser" /\ replies[1].ok
                     /\ calls[2].op = "AdminSetUserPassword" /\ replies[2].ok
        /\ Is201 => /\ user_id \in UserIds
                    /\ result.body.user_id = user_id
                    /\ calls[1].username = user_id
                    /\ calls[2].username = user_id
        /\ (result.kind = "Ok" /\ ~Is201) => result.status \in {400, 500}

C3_Witness == pc = "done" /\ Is201 /\ Len(calls) = 2

\* C4: when create-user fails the handler answers 500 REGISTRATION_FAILED
\* and set-password is never issued; set-password is only ever issued after
\* a successful create-user.
C4_CreateFailureStops ==
    /\ \A i \in 1..Len(calls) :
         calls[i].op = "AdminSetUserPassword" =>
            \E j \in 1..(i - 1) : calls[j].op = "AdminCreateUser" /\ replies[j].ok
    /\ (Len(replies) >= 1 /\ ~replies[1].ok) =>
         /\ OpCount("AdminSetUserPassword") = 0
         /\ pc = "done" => result = Http(500, ErrorBody("REGISTRATION_FAILED", replies[1].err))

C4_Witness == pc = "done" /\ Len(replies) = 1 /\ ~replies[1].ok /\ result.status = 500

\* C5: when create-user succeeds and set-password fails the handler answers
\* 500 REGISTRATION_FAILED with the provider's message, issues no further
\* call, and the created user is still there without a permanent password.
C5_NoRollback ==
    (pc = "done" /\ Len(replies) = 2 /\ replies[1].ok /\ ~replies[2].ok) =>
        /\ result = Http(500, ErrorBody("REGISTRATION_FAILED", replies[2].err))
        /\ Len(calls) = 2
        /\ [user_pool_id |-> user_pool_id, username |-> user_id,
            status |-> "FORCE_CHANGE_PASSWORD"] \in users

C5_Witness ==
    /\ pc = "done" /\ Len(calls) = 2 /\ replies[1].ok /\ ~replies[2].ok
    /\ result.body.error = "REGISTRATION_FAILED"

\* C6 as stated: every invocation that does not succeed, whatever the cause,
\* returns an ErrorResponse with status 400 or 500.
C6_AllFailuresAreResponses ==
    (pc = "done" /\ ~Is201) => IsErrorResponse

\* C6 amended: an invocation that does not succeed returns an ErrorResponse
\* with status 400 or 500, except when the cause is the missing pool id: a
\* valid request without USER_POOL_ID makes the handler return an error to
\* the runtime and no HTTP response.
C6_FailuresAreResponsesUnlessConfig ==
    (pc = "done" /\ ~Is201) =>
        IF Valid(body) /\ ~env.some
        THEN result = [kind |-> "Err", message |-> "USER_POOL_ID environment variable not set"]
        ELSE IsErrorResponse

C6_Witness == pc = "done" /\ env.some /\ Valid(body) /\ IsErrorResponse /\ result.status = 500

\* C7: with USER_POOL_ID absent, a valid request aborts before any provider
\* call: no create-user, no set-password, no user id generated or returned.
C7_MissingPoolAborts ==
    (Valid(body) /\ ~env.some) =>
        /\ calls = << >>
        /\ user_id = "none"
        /\ pc \notin {"new_user_id", "create_user", "set_password", "respond"}
        /\ pc = "done" => result.kind = "Err"

C7_Witness == pc = "done" /\ Valid(body) /\ ~env.some /\ envRead /\ client

\* C8: create-user and set-password are each issued at most once, at most
\* two provider calls in total, create-user first.
C8_AtMostOnce ==
    /\ OpCount("AdminCreateUser") <= 1
    /\ OpCount("AdminSetUserPassword") <= 1
    /\ Len(calls) <= 2
    /\ Len(calls) >= 1 => calls[1].op = "AdminCreateUser"
    /\ Len(calls) = 2 => calls[2].op = "AdminSetUserPassword"

C8_Witness == pc = "done" /\ Len(calls) = 2 /\ ~replies[2].ok /\ OpCount("AdminCreateUser") = 1

\* C9: create-user carries email, email_verified=false, tenant_id and
\* user_role (the request's, or "User" when absent), the request password
\* as temporary password, notification suppressed; set-password uses the
\* same pool id, username and password, with permanent = true.
C9_CallArguments ==
    /\ Len(calls) >= 1 =>
         /\ calls[1].op = "AdminCreateUser"
         /\ calls[1].user_pool_id = env.v
         /\ calls[1].username = user_id
         /\ Len(calls[1].user_attributes) = 4
         /\ calls[1].user_attributes[1] = [name |-> "email", value |-> body.email.s]
         /\ calls[1].user_attributes[2] =
                [name |-> "email_verified", value |-> <<"f", "a", "l", "s", "e">>]
         /\ calls[1].user_attributes[3] = [name |-> "custom:tenant_id", value |-> body.tenant_id.s]
         /\ calls[1].user_attributes[4].name = "custom:user_role"
         /\ IsStr(body.user_role) => calls[1].user_attributes[4].value = body.user_role.s
         /\ body.user_role.t = "missing" =>
                calls[1].user_attributes[4].value = <<"U", "s", "e", "r">>
         /\ calls[1].temporary_password = body.password.s
         /\ calls[1].message_action = "Suppress"
    /\ Len(calls) >= 2 =>
         calls[2] = [op |-> "AdminSetUserPassword",
                     user_pool_id |-> calls[1].user_pool_id,
                     username |-> calls[1].username,
                     password |-> calls[1].temporary_password,
                     permanent |-> TRUE]

C9_Witness == Len(calls) = 2 /\ body.user_role.t = "missing" /\ body.password.s # << >>

\* C10: a request failing a validation check gets its 400 without the pool
\* id being read and without any provider call, also when the pool id is
\* missing; its outcome depends on the body alone.
C10_ValidationBeforeConfig ==
    ~Valid(body) =>
        /\ ~envRead
        /\ ~client
        /\ calls = << >>
        /\ pc = "done" => /\ result.kind = "Ok"
                          /\ result.status = 400
                          /\ result = InvalidOutcome(body)

C10_Witness == pc = "done" /\ ~Valid(body) /\ ~env.some /\ result.status = 400
====
